---- MODULE Spec2Model ----
(***************************************************************************)
(* Model of the WhatsApp OSINT API server (src/index.js): the GET          *)
(* /check/:phone handler with its node-cache, the whatsapp-web.js client   *)
(* lifecycle events, main() and gracefulShutdown().                        *)
(***************************************************************************)
EXTENDS Integers, Sequences, FiniteSets, Bags, TLC

\* ---------------------------------------------------------------- bounds
MaxInFlight == 2      \* lookup requests awaiting the client at one time
MaxSignals == 1       \* SIGINT/SIGTERM deliveries in one run
TTL == 1              \* config.cache.ttl, in clock ticks

\* ---------------------------------------------------------------- inputs
\* Path parameters, as sequences of characters.
Digits == {"0", "1", "2", "3", "4", "5", "6", "7", "8", "9"}
Phones == {<<>>, <<"1">>, <<"1", "a">>}

\* contact objects the client can return (JS values as strings)
Contacts ==
  { [pushname |-> "Alice", number |-> "15559999999", isBusiness |-> "false"],
    [pushname |-> "undefined", number |-> "", isBusiness |-> "undefined"] }
PicUrls == {"http://pic", "undefined"}

Signals == {"SIGINT", "SIGTERM"}

\* ---------------------------------------------------------------- helpers
\* JS truthiness of the values above
Truthy(v) == v \notin {"undefined", "", "null", "false"}

\* a || b
JsOr_NoDefault(a, b) == a
JsOr(a, b) == IF Truthy(a) THEN a ELSE b

\* schema pattern '^[0-9]+$' of the route
ValidPhone_Any(p) == TRUE
ValidPhone(p) == Len(p) > 0 /\ \A i \in 1..Len(p) : p[i] \in Digits

\* find-my-way: '/check/:phone' only matches a non-empty parameter
RouteMatches(p) == Len(p) > 0

\* `whatsapp_user_${phone}`
cacheKey_Constant(p) == <<"whatsapp_user_">>
cacheKey(p) == <<"whatsapp_user_">> \o p

\* A cache entry is [val, ttlLeft]: node-cache stores the deadline
\* t = now + stdTTL, kept here relative to the clock as ttlLeft = t - now.
\* An entry is expired when its deadline lies before now (t < now).
Expired(e) == e.ttlLeft < 0

\* phoneNumberCache.get(key): a hit only for a stored, unexpired entry
cacheHit_NoExpiry(c, k) == k \in DOMAIN c
cacheHit(c, k) == k \in DOMAIN c /\ ~Expired(c[k])

\* get() deletes an expired entry it finds (deleteOnExpire)
cacheAfterGet(c, k) ==
  IF k \in DOMAIN c /\ Expired(c[k])
  THEN [x \in DOMAIN c \ {k} |-> c[x]]
  ELSE c

\* phoneNumberCache.set(key, value): the deadline is stdTTL from now
cacheSet(c, k, v) ==
  [x \in DOMAIN c \cup {k} |-> IF x = k THEN [val |-> v, ttlLeft |-> TTL] ELSE c[x]]

\* phoneNumberCache.flushAll()
flushAll(c) == [x \in {} |-> [val |-> [registered |-> FALSE], ttlLeft |-> 0]]

\* result object of the handler
NotRegistered == [registered |-> FALSE]
BuildResult(contact, pfpUrl) ==
  [registered |-> TRUE,
   name |-> JsOr(contact.pushname, "null"),
   number |-> JsOr(contact.number, "null"),
   profile_picture_url |-> JsOr(pfpUrl, "null"),
   is_business |-> JsOr(contact.isBusiness, "false")]

NoContact == [pushname |-> "undefined", number |-> "undefined", isBusiness |-> "undefined"]
NoBody == [success |-> FALSE, error |-> "none"]
NoResponse ==
  [phone |-> <<>>, status |-> 0, header |-> "none", body |-> NoBody, calls |-> 0,
   failedAt |-> "none", stale |-> FALSE]
OkBody_Live(result, source) == [success |-> TRUE, result |-> result, source |-> "live"]
OkBody(result, source) == [success |-> TRUE, result |-> result, source |-> source]
ErrorBody == [success |-> FALSE, error |-> "An internal server error occurred."]
ValidationBody == [success |-> FALSE, error |-> "validation"]
NotFoundBody == [success |-> FALSE, error |-> "Not Found"]

\* process.exit(signal === 'Startup Failure' ? 1 : 0)
ExitCodeFor(signal) == IF signal = "Startup Failure" THEN 1 ELSE 0

\* if (server && server.server.listening)
ServerGuard(server, isListening) == server /\ isListening

\* if (client && client.pupBrowser)
ClientGuard_AnyClient(client, pup) == client
ClientGuard(client, pup) == client /\ pup

VARIABLES
  mainPc,        \* position of main(): start, awaitInit, awaitListen, running, failed
  serverDefined, \* main's `server` has been assigned
  clientDefined, \* main's `client` has been assigned
  sess,          \* session state of the whatsapp-web.js client
  pupBrowser,    \* client.pupBrowser exists
  everReady,     \* the 'ready' event has fired
  listening,     \* server.server.listening
  closing,       \* server.close() has been called
  cache,         \* phoneNumberCache: key -> [val, ttlLeft]
  reqs,          \* bag of the lookup requests awaiting the client
  resp,          \* the response sent last
  recent,        \* key -> results of the live lookups completed less than TTL ago
  sd,            \* sequence of gracefulShutdown invocations
  exited,        \* the process has exited
  exitCode,
  exitTrigger    \* the `signal` argument of the invocation that exited

vars == <<mainPc, serverDefined, clientDefined, sess, pupBrowser, everReady,
          listening, closing, cache, reqs, resp, recent, sd, exited, exitCode,
          exitTrigger>>

histVars == <<resp, recent>>

Init ==
  /\ mainPc = "start"
  /\ serverDefined = FALSE
  /\ clientDefined = FALSE
  /\ sess = "Uninitialized"
  /\ pupBrowser = FALSE
  /\ everReady = FALSE
  /\ listening = FALSE
  /\ closing = FALSE
  /\ cache = flushAll(<<>>)
  /\ reqs = EmptyBag
  /\ resp = NoResponse
  /\ recent = [k \in {} |-> {}]
  /\ sd = <<>>
  /\ exited = FALSE
  /\ exitCode = -1
  /\ exitTrigger = "none"

\* ------------------------------------------------------------- shutdown
\* gracefulShutdown, from the cache flush to process.exit (lines 238-242);
\* the handlers still awaiting the client end with the process
Finish(i, s) ==
  /\ sd' = [s EXCEPT ![i].pc = "exited", ![i].steps = @ \o <<"flush", "exit">>]
  /\ cache' = flushAll(cache)
  /\ exited' = TRUE
  /\ exitCode' = ExitCodeFor(s[i].trigger)
  /\ exitTrigger' = s[i].trigger
  /\ reqs' = EmptyBag

\* gracefulShutdown, from the client guard on (lines 234-242)
ReleaseClient(i, s) ==
  IF ClientGuard(s[i].client, pupBrowser)
  THEN /\ sd' = [s EXCEPT ![i].pc = "awaitDestroy", ![i].steps = Append(@, "destroy")]
       /\ UNCHANGED <<cache, reqs, exited, exitCode, exitTrigger>>
  ELSE Finish(i, s)

\* gracefulShutdown(client, server, signal) up to its first await
gracefulShutdown(client, server, signal) ==
  LET inv == [trigger |-> signal, client |-> client, server |-> server,
              serverListening |-> listening, pc |-> "start",
              steps |-> <<>>, failed |-> "none",
              pupAtInvoke |-> pupBrowser, readyAtInvoke |-> everReady,
              listeningAtInvoke |-> listening /\ ~closing]
      i == Len(sd) + 1
  IN IF ServerGuard(server, listening)
     THEN /\ sd' = Append(sd, [inv EXCEPT !.pc = "awaitClose", !.steps = <<"close">>])
          /\ closing' = TRUE
          /\ UNCHANGED <<cache, reqs, exited, exitCode, exitTrigger>>
     ELSE /\ closing' = closing
          /\ ReleaseClient(i, Append(sd, inv))

\* server.close() resolves once the requests in flight have been answered:
\* the listener is gone, the shutdown continues
CloseResolve(i) ==
  /\ ~exited
  /\ i \in DOMAIN sd /\ sd[i].pc = "awaitClose"
  /\ reqs = EmptyBag
  /\ listening' = FALSE
  /\ ReleaseClient(i, sd)
  /\ UNCHANGED <<mainPc, serverDefined, clientDefined, sess, pupBrowser, everReady,
                 closing, histVars>>

\* server.close() rejects: nothing catches it inside gracefulShutdown
CloseReject(i) ==
  /\ ~exited
  /\ i \in DOMAIN sd /\ sd[i].pc = "awaitClose"
  /\ sd' = [sd EXCEPT ![i].pc = "aborted", ![i].failed = "close"]
  /\ UNCHANGED <<mainPc, serverDefined, clientDefined, sess, pupBrowser, everReady,
                 listening, closing, cache, reqs, histVars, exited, exitCode, exitTrigger>>

\* client.destroy() resolves
DestroyResolve(i) ==
  /\ ~exited
  /\ i \in DOMAIN sd /\ sd[i].pc = "awaitDestroy"
  /\ Finish(i, sd)
  /\ UNCHANGED <<mainPc, serverDefined, clientDefined, sess, pupBrowser, everReady,
                 listening, closing, histVars>>

\* client.destroy() rejects
DestroyReject(i) ==
  /\ ~exited
  /\ i \in DOMAIN sd /\ sd[i].pc = "awaitDestroy"
  /\ sd' = [sd EXCEPT ![i].pc = "aborted", ![i].failed = "destroy"]
  /\ UNCHANGED <<mainPc, serverDefined, clientDefined, sess, pupBrowser, everReady,
                 listening, closing, cache, reqs, histVars, exited, exitCode, exitTrigger>>

\* The rejected promise of an aborted gracefulShutdown has no handler: a
\* runtime that treats unhandled rejections as fatal ends the process with
\* code 1; one that only warns never takes this step.
UnhandledRejection(i) ==
  /\ ~exited
  /\ i \in DOMAIN sd /\ sd[i].pc = "aborted"
  /\ sd' = [sd EXCEPT ![i].pc = "crashed"]
  /\ exited' = TRUE
  /\ exitCode' = 1
  /\ exitTrigger' = sd[i].trigger
  /\ reqs' = EmptyBag
  /\ UNCHANGED <<mainPc, serverDefined, clientDefined, sess, pupBrowser, everReady,
                 listening, closing, cache, resp, recent>>

\* process.on(signal, () => gracefulShutdown(client, server, signal))
Signal(sig) ==
  /\ ~exited
  /\ mainPc # "start"
  /\ Cardinality({i \in DOMAIN sd : sd[i].trigger \in Signals}) < MaxSignals
  /\ gracefulShutdown(clientDefined, serverDefined, sig)
  /\ UNCHANGED <<mainPc, serverDefined, clientDefined, sess, pupBrowser, everReady,
                 listening, histVars>>

\* ----------------------------------------------------------------- main
\* main() up to `await client.initialize()`; a constructor that throws
\* lands in the catch block with the variables assigned so far
MainStart(serverOk, clientOk) ==
  /\ ~exited
  /\ mainPc = "start"
  /\ serverDefined' = serverOk
  /\ clientDefined' = (serverOk /\ clientOk)
  /\ IF serverOk /\ clientOk
     THEN /\ mainPc' = "awaitInit"
          /\ UNCHANGED <<sd, closing, cache, reqs, exited, exitCode, exitTrigger>>
     ELSE /\ mainPc' = "failed"
          /\ gracefulShutdown(FALSE, serverOk, "Startup Failure")
  /\ UNCHANGED <<sess, pupBrowser, everReady, listening, histVars>>

\* client.initialize() resolves; main calls server.listen()
InitializeResolve ==
  /\ ~exited
  /\ mainPc = "awaitInit"
  /\ pupBrowser /\ sess # "Uninitialized"
  /\ mainPc' = "awaitListen"
  /\ UNCHANGED <<serverDefined, clientDefined, sess, pupBrowser, everReady, listening,
                 closing, cache, reqs, histVars, sd, exited, exitCode, exitTrigger>>

\* client.initialize() rejects: catch block
InitializeReject ==
  /\ ~exited
  /\ mainPc = "awaitInit"
  /\ mainPc' = "failed"
  /\ gracefulShutdown(clientDefined, serverDefined, "Startup Failure")
  /\ UNCHANGED <<serverDefined, clientDefined, sess, pupBrowser, everReady, listening,
                 histVars>>

\* server.listen() resolves
ListenResolve_Early ==
  /\ ~exited
  /\ mainPc \in {"awaitInit", "awaitListen"}
  /\ mainPc' = "running"
  /\ listening' = TRUE
  /\ UNCHANGED <<serverDefined, clientDefined, sess, pupBrowser, everReady,
                 closing, cache, reqs, histVars, sd, exited, exitCode, exitTrigger>>
ListenResolve ==
  /\ ~exited
  /\ mainPc = "awaitListen"
  /\ mainPc' = "running"
  /\ listening' = TRUE
  /\ UNCHANGED <<serverDefined, clientDefined, sess, pupBrowser, everReady,
                 closing, cache, reqs, histVars, sd, exited, exitCode, exitTrigger>>

\* server.listen() rejects: catch block
ListenReject ==
  /\ ~exited
  /\ mainPc = "awaitListen"
  /\ mainPc' = "failed"
  /\ gracefulShutdown(clientDefined, serverDefined, "Startup Failure")
  /\ UNCHANGED <<serverDefined, clientDefined, sess, pupBrowser, everReady, listening,
                 histVars>>

\* -------------------------------------------------------- client events
\* client.destroy() has been called by some shutdown
ClientDestroyed ==
  \E i \in DOMAIN sd : \E j \in DOMAIN sd[i].steps : sd[i].steps[j] = "destroy"

\* initialize() launches the browser (client.pupBrowser) and the session
\* either needs a QR scan ('qr') or resumes a saved one
ClientLaunch(next) ==
  /\ ~exited
  /\ mainPc = "awaitInit"
  /\ sess = "Uninitialized" /\ ~pupBrowser
  /\ pupBrowser' = TRUE
  /\ sess' = next
  /\ UNCHANGED <<mainPc, serverDefined, clientDefined, everReady, listening,
                 closing, cache, reqs, histVars, sd, exited, exitCode, exitTrigger>>

\* client.on('authenticated')
OnAuthenticated ==
  /\ ~exited
  /\ ~ClientDestroyed
  /\ sess = "AwaitingCredential"
  /\ sess' = "Authenticating"
  /\ UNCHANGED <<mainPc, serverDefined, clientDefined, pupBrowser, everReady, listening,
                 closing, cache, reqs, histVars, sd, exited, exitCode, exitTrigger>>

\* client.on('ready')
OnReady ==
  /\ ~exited
  /\ ~ClientDestroyed
  /\ sess = "Authenticating"
  /\ sess' = "Ready"
  /\ everReady' = TRUE
  /\ UNCHANGED <<mainPc, serverDefined, clientDefined, pupBrowser, listening,
                 closing, cache, reqs, histVars, sd, exited, exitCode, exitTrigger>>

\* client.on('auth_failure'): gracefulShutdown(client, null, 'Authentication Failure')
OnAuthFailure ==
  /\ ~exited
  /\ ~ClientDestroyed
  /\ sess = "Authenticating"
  /\ sess' = "Failed"
  /\ gracefulShutdown(clientDefined, FALSE, "Authentication Failure")
  /\ UNCHANGED <<mainPc, serverDefined, clientDefined, pupBrowser, everReady,
                 listening, histVars>>

\* client.on('disconnected'): logs only
OnDisconnected ==
  /\ ~exited
  /\ ~ClientDestroyed
  /\ sess = "Ready"
  /\ sess' = "Disconnected"
  /\ UNCHANGED <<mainPc, serverDefined, clientDefined, pupBrowser, everReady, listening,
                 closing, cache, reqs, histVars, sd, exited, exitCode, exitTrigger>>

\* ------------------------------------------------------------- requests
\* the client answers queries only while its session is ready
UpstreamUp == sess = "Ready" /\ ~ClientDestroyed

\* upstream calls a request has issued when it waits at pc
Calls(pc) ==
  CASE pc = "awaitIsRegistered" -> 1
    [] pc = "awaitContact" -> 2
    [] pc = "awaitPic" -> 3
    [] OTHER -> 0

InFlight == BagToSet(reqs)
Put(q) == reqs (+) SetToBag({q})
Take(q) == reqs (-) SetToBag({q})

RecentOf(k) == IF k \in DOMAIN recent THEN {e.val : e \in recent[k]} ELSE {}

\* a request the transport has just accepted; stale: the cache holds an
\* expired entry for its key
NewRequest(p) ==
  [phone |-> p, pc |-> "routing", contact |-> NoContact, abandoned |-> FALSE,
   stale |-> (cacheKey(p) \in DOMAIN cache /\ Expired(cache[cacheKey(p)]))]

\* reply.code(status).header('X-Cache-Status', header).send(body) for request q
Response(q, status, header, body, failedAt) ==
  [phone |-> q.phone, status |-> status, header |-> header, body |-> body,
   calls |-> Calls(q.pc), failedAt |-> failedAt, stale |-> q.stale]

\* the route with its schema and the handler up to its first await
\* (lines 166-192): a response, or a request waiting for isRegisteredUser
HandlerStart(p, c) ==
  LET q == NewRequest(p) IN
  IF ~RouteMatches(p)
  THEN [sent |-> TRUE, resp |-> Response(q, 404, "none", NotFoundBody, "none"),
        cache |-> c]
  ELSE IF ~ValidPhone(p)
  THEN [sent |-> TRUE, resp |-> Response(q, 400, "none", ValidationBody, "none"),
        cache |-> c]
  ELSE IF cacheHit(c, cacheKey(p))
  THEN [sent |-> TRUE,
        resp |-> Response(q, 200, "HIT", OkBody(c[cacheKey(p)].val, "cache"), "none"),
        cache |-> c]
  ELSE [sent |-> FALSE, req |-> [q EXCEPT !.pc = "awaitIsRegistered"],
        cache |-> cacheAfterGet(c, cacheKey(p))]

\* the catch block (lines 210-213)
OnError_PartialProfile(q) ==
  IF q.pc \in {"awaitContact", "awaitPic"}
  THEN [status |-> 200, body |-> OkBody(BuildResult(q.contact, "undefined"), "live"),
        store |-> TRUE]
  ELSE [status |-> 500, body |-> ErrorBody, store |-> FALSE]
OnError_CacheFailure(q) ==
  [status |-> 500,
   body |-> [success |-> FALSE, error |-> "An internal server error occurred.",
             result |-> ErrorBody],
   store |-> TRUE]
OnError(q) == [status |-> 500, body |-> ErrorBody, store |-> FALSE]

\* GET /check/:phone arrives at a listening server
Receive(p) ==
  /\ ~exited
  /\ listening /\ ~closing
  /\ BagCardinality(reqs) < MaxInFlight
  /\ LET h == HandlerStart(p, cache) IN
       /\ cache' = h.cache
       /\ IF h.sent
          THEN resp' = h.resp /\ reqs' = reqs
          ELSE resp' = resp /\ reqs' = Put(h.req)
  /\ UNCHANGED <<mainPc, serverDefined, clientDefined, sess, pupBrowser, everReady,
                 listening, closing, recent, sd, exited, exitCode, exitTrigger>>

\* lines 205-208: store the result and send it
Complete(q, result) ==
  LET k == cacheKey(q.phone) IN
  /\ cache' = cacheSet(cache, k, result)
  /\ resp' = Response(q, 200, "MISS", OkBody(result, "live"), "none")
  /\ reqs' = Take(q)
  /\ recent' = [x \in DOMAIN recent \cup {k} |->
                  (IF x \in DOMAIN recent THEN recent[x] ELSE {})
                  \cup (IF x = k THEN {[val |-> result, left |-> TTL]} ELSE {})]

\* client.isRegisteredUser(phoneNumberId) resolves
IsRegisteredResolve(q, isRegistered) ==
  /\ ~exited
  /\ q \in InFlight /\ q.pc = "awaitIsRegistered"
  /\ UpstreamUp
  /\ IF isRegistered
     THEN /\ reqs' = Take(q) (+) SetToBag({[q EXCEPT !.pc = "awaitContact"]})
          /\ UNCHANGED <<cache, resp, recent>>
     ELSE Complete(q, NotRegistered)
  /\ UNCHANGED <<mainPc, serverDefined, clientDefined, sess, pupBrowser, everReady,
                 listening, closing, sd, exited, exitCode, exitTrigger>>

\* client.getContactById(phoneNumberId) resolves
ContactResolve(q, contact) ==
  /\ ~exited
  /\ q \in InFlight /\ q.pc = "awaitContact"
  /\ UpstreamUp
  /\ reqs' = Take(q) (+) SetToBag({[q EXCEPT !.pc = "awaitPic", !.contact = contact]})
  /\ UNCHANGED <<mainPc, serverDefined, clientDefined, sess, pupBrowser, everReady,
                 listening, closing, cache, resp, recent, sd, exited, exitCode,
                 exitTrigger>>

\* contact.getProfilePicUrl() resolves
PicResolve(q, pfpUrl) ==
  /\ ~exited
  /\ q \in InFlight /\ q.pc = "awaitPic"
  /\ UpstreamUp
  /\ Complete(q, BuildResult(q.contact, pfpUrl))
  /\ UNCHANGED <<mainPc, serverDefined, clientDefined, sess, pupBrowser, everReady,
                 listening, closing, sd, exited, exitCode, exitTrigger>>

\* any of the three awaited calls rejects: catch block
UpstreamReject(q) ==
  /\ ~exited
  /\ q \in InFlight
  /\ LET o == OnError(q) IN
       /\ resp' = Response(q, o.status, "MISS", o.body, q.pc)
       /\ cache' = IF o.store
                   THEN cacheSet(cache, cacheKey(q.phone), o.body.result)
                   ELSE cache
  /\ reqs' = Take(q)
  /\ UNCHANGED <<mainPc, serverDefined, clientDefined, sess, pupBrowser, everReady,
                 listening, closing, recent, sd, exited, exitCode, exitTrigger>>

\* the requests in flight once the caller of q has closed its connection:
\* the handler listens to no close event, q stays in flight
Abandon_Cancel(q) == Take(q)
Abandon(q) == Take(q) (+) SetToBag({[q EXCEPT !.abandoned = TRUE]})

\* the caller of an in-flight request disconnects (one disconnected caller
\* is followed at a time)
CallerDisconnect(q) ==
  /\ ~exited
  /\ q \in InFlight
  /\ \A x \in InFlight : ~x.abandoned
  /\ reqs' = Abandon(q)
  /\ UNCHANGED <<mainPc, serverDefined, clientDefined, sess, pupBrowser, everReady,
                 listening, closing, cache, histVars, sd, exited, exitCode, exitTrigger>>

\* ----------------------------------------------------------------- time
\* one clock tick: every deadline comes one tick closer (an expired entry
\* stays expired)
Tick ==
  /\ ~exited
  /\ cache' = [k \in DOMAIN cache |->
                 [cache[k] EXCEPT !.ttlLeft = IF @ < 0 THEN @ ELSE @ - 1]]
  /\ recent' = LET aged == [k \in DOMAIN recent |->
                              {[e EXCEPT !.left = @ - 1] : e \in {x \in recent[k] : x.left > 1}}]
               IN [k \in {x \in DOMAIN aged : aged[x] # {}} |-> aged[k]]
  /\ UNCHANGED <<mainPc, serverDefined, clientDefined, sess, pupBrowser, everReady,
                 listening, closing, reqs, resp, sd, exited, exitCode, exitTrigger>>

\* node-cache's periodic check (checkperiod) deletes the expired entries
CheckData ==
  /\ ~exited
  /\ \E k \in DOMAIN cache : Expired(cache[k])
  /\ cache' = [k \in {x \in DOMAIN cache : ~Expired(cache[x])} |-> cache[k]]
  /\ UNCHANGED <<mainPc, serverDefined, clientDefined, sess, pupBrowser, everReady,
                 listening, closing, reqs, resp, recent, sd, exited, exitCode,
                 exitTrigger>>

Next ==
  \/ \E a \in BOOLEAN, b \in BOOLEAN : MainStart(a, b)
  \/ InitializeResolve
  \/ InitializeReject
  \/ ListenResolve
  \/ ListenReject
  \/ \E n \in {"AwaitingCredential", "Authenticating"} : ClientLaunch(n)
  \/ OnAuthenticated
  \/ OnReady
  \/ OnAuthFailure
  \/ OnDisconnected
  \/ \E sig \in Signals : Signal(sig)
  \/ \E i \in DOMAIN sd : CloseResolve(i)
  \/ \E i \in DOMAIN sd : CloseReject(i)
  \/ \E i \in DOMAIN sd : DestroyResolve(i)
  \/ \E i \in DOMAIN sd : DestroyReject(i)
  \/ \E i \in DOMAIN sd : UnhandledRejection(i)
  \/ \E p \in Phones : Receive(p)
  \/ \E q \in InFlight, b \in BOOLEAN : IsRegisteredResolve(q, b)
  \/ \E q \in InFlight, c \in Contacts : ContactResolve(q, c)
  \/ \E q \in InFlight, u \in PicUrls : PicResolve(q, u)
  \/ \E q \in InFlight : UpstreamReject(q)
  \/ \E q \in InFlight : CallerDisconnect(q)
  \/ Tick
  \/ CheckData

Spec == Init /\ [][Next]_vars

TypeOK ==
  /\ mainPc \in {"start", "awaitInit", "awaitListen", "running", "failed"}
  /\ BagCardinality(reqs) <= MaxInFlight
  /\ \A k \in DOMAIN cache : cache[k].ttlLeft \in -1..TTL

\* ================================================================ claims
NotReadyStates == {"AwaitingCredential", "Authenticating"}
ProfileCalls == {"awaitContact", "awaitPic"}

\* isRegisteredUser calls outstanding for key k
OutstandingQueries(k) ==
  LET waiting == {q \in InFlight : q.pc = "awaitIsRegistered" /\ cacheKey(q.phone) = k}
  IN BagCardinality([q \in waiting |-> reqs[q]])

\* the step accepted a request: it joined the requests in flight or was
\* answered at once
Accepted ==
  IF reqs' = reqs
  THEN resp' # resp
  ELSE BagCardinality(reqs') > BagCardinality(reqs)

\* the step answered a request that was awaiting the client
Answered ==
  reqs' # reqs /\ ~exited' /\ BagCardinality(reqs') < BagCardinality(reqs)

\* an identifier the claim calls invalid: empty, or with a non-digit
InvalidIdentifier(p) == p = <<>> \/ \E i \in DOMAIN p : p[i] \notin Digits

Has(steps, x) == \E j \in DOMAIN steps : steps[j] = x

\* C1: for every valid identifier at most one upstream query
\* (isRegisteredUser) is outstanding at any time, however many lookups for it
\* started before any of them resolved.
C1_OneQueryPerKey ==
  \A p \in Phones : ~InvalidIdentifier(p) => OutstandingQueries(cacheKey(p)) <= 1

C2_Step ==
  \A p \in Phones :
    RecentOf(cacheKey(p)) # {} =>
      /\ OutstandingQueries(cacheKey(p))' <= OutstandingQueries(cacheKey(p))
      /\ (reqs' = reqs /\ resp' # resp /\ resp'.phone = p) =>
           /\ resp'.status = 200
           /\ resp'.header = "HIT"
           /\ resp'.calls = 0
           /\ resp'.body.source = "cache"
           /\ \A v \in RecentOf(cacheKey(p)) : resp'.body.result = v

\* C2: a lookup that starts less than TTL after a lookup for the same
\* identifier completed successfully issues no upstream call, is answered
\* with X-Cache-Status HIT and source "cache", and with that lookup's result.
C2_SecondLookupRepeatsFirst == [][C2_Step]_vars

C3_State ==
  /\ resp.stale => resp.header = "MISS" /\ resp.calls >= 1
  /\ resp.header = "HIT" => ~resp.stale /\ resp.calls = 0
C3_Step ==
  /\ (Answered /\ resp'.status = 200) =>
        /\ cacheKey(resp'.phone) \in DOMAIN cache'
        /\ cache'[cacheKey(resp'.phone)] = [val |-> resp'.body.result, ttlLeft |-> TTL]
  /\ (reqs' = reqs /\ resp' # resp /\ resp'.header = "HIT") =>
        /\ cacheKey(resp'.phone) \in DOMAIN cache
        /\ cache[cacheKey(resp'.phone)].ttlLeft >= 0
        /\ cache[cacheKey(resp'.phone)].val = resp'.body.result

\* C3: a lookup that starts when the stored entry is older than the TTL is
\* not answered from the cache: it issues an upstream call and, when that
\* succeeds, the entry is replaced by the new result with a new deadline.
C3_ExpiredEntryNeverServed == [](C3_State) /\ [][C3_Step]_vars
C3_Witness ==
  /\ resp.stale /\ resp.status = 200 /\ resp.body.source = "live"
  /\ cacheKey(resp.phone) \in DOMAIN cache
  /\ cache[cacheKey(resp.phone)] = [val |-> resp.body.result, ttlLeft |-> TTL]

C4_State ==
  /\ \A q \in InFlight : ~InvalidIdentifier(q.phone)
  /\ \A k \in DOMAIN cache : \E p \in Phones : ~InvalidIdentifier(p) /\ k = cacheKey(p)
  /\ InvalidIdentifier(resp.phone) /\ resp.status # 0 =>
        /\ resp.status \in {400, 404}
        /\ resp.body.success = FALSE
        /\ resp.calls = 0 /\ resp.header = "none"
C4_Step ==
  (resp' # resp /\ InvalidIdentifier(resp'.phone)) =>
     /\ cache' = cache /\ reqs' = reqs
     /\ sess' = sess /\ pupBrowser' = pupBrowser /\ sd' = sd

\* C4: a request with an empty or non-digit identifier gets a client-error
\* response and touches neither the cache nor the session client.
C4_InvalidIdentifierRejected == [](C4_State) /\ [][C4_Step]_vars
C4_Witness ==
  /\ resp.status = 400 /\ resp.phone = <<"1", "a">>
  /\ cache # flushAll(cache)

C5_Step ==
  sess \in NotReadyStates =>
    /\ BagCardinality(reqs') <= BagCardinality(reqs)
    /\ (resp' # resp /\ ~InvalidIdentifier(resp'.phone)) =>
          resp'.status # 500 /\ resp'.header # "HIT"

\* C5: while the session is AwaitingCredential or Authenticating, a lookup
\* issues no upstream call and is answered neither from the cache nor with
\* the generic 500 error.
C5_NotReadyOutcome == [][C5_Step]_vars

\* C6: a shutdown invoked before the session reached Ready never calls
\* client.destroy().
C6_NoDestroyBeforeReady ==
  \A i \in DOMAIN sd : ~sd[i].readyAtInvoke => ~Has(sd[i].steps, "destroy")

\* C6 (amended): a shutdown invoked before the client's browser exists
\* (client.pupBrowser unset) never calls client.destroy() and exits the
\* process.
C6_NoDestroyBeforeBrowser ==
  \A i \in DOMAIN sd :
    ~sd[i].pupAtInvoke =>
       /\ ~Has(sd[i].steps, "destroy")
       /\ sd[i].pc = "exited" /\ exited
C6_Witness ==
  \E i \in DOMAIN sd :
    /\ sd[i].client /\ ~sd[i].pupAtInvoke /\ ~sd[i].readyAtInvoke
    /\ sd[i].pc = "exited" /\ exited

\* C7: the exit code is 0 exactly when the shutdown was triggered by
\* SIGINT/SIGTERM, and non-zero for startup and authentication failures.
C7_ExitCodeByTrigger ==
  exited => (exitCode = 0 <=> exitTrigger \in Signals)

C8_Order ==
  \A i \in DOMAIN sd :
    /\ (sd[i].listeningAtInvoke /\ Has(sd[i].steps, "destroy")) => sd[i].steps[1] = "close"
    /\ \A a, b \in DOMAIN sd[i].steps :
         (a < b) =>
           /\ sd[i].steps[b] # "close"
           /\ sd[i].steps[b] = "destroy" => sd[i].steps[a] = "close"
           /\ sd[i].steps[b] = "exit" => b = Len(sd[i].steps) /\ sd[i].steps[b - 1] = "flush"
C8_Step == ClientDestroyed => ~Accepted

\* C8: in every shutdown the transport stops accepting (when listening)
\* before the client is released, the cache is flushed after that and the
\* process exits last; no request is accepted once the release has begun.
C8_ShutdownOrder == [](C8_Order) /\ [][C8_Step]_vars

C9_State ==
  resp.failedAt \in ProfileCalls =>
     /\ resp.status = 500
     /\ resp.body = ErrorBody
     /\ resp.body.success = FALSE
C9_Step ==
  (Answered /\ resp'.failedAt \in ProfileCalls) => cache' = cache

C10_StepsIndependentlyGuarded ==
  \A i \in DOMAIN sd :
    /\ sd[i].failed = "close" => sd[i].pc \in {"awaitDestroy", "exited"}
    /\ sd[i].failed = "destroy" => sd[i].pc = "exited"
    /\ sd[i].pc \in {"exited", "crashed"} =>
         exitCode = (IF sd[i].trigger \in Signals THEN 0 ELSE 1)

\* C11: under any sequence of overlapping shutdown triggers the transport
\* is closed at most once and client.destroy() is called at most once.
C11_ShutdownIdempotent ==
  /\ Cardinality({i \in DOMAIN sd : Has(sd[i].steps, "close")}) <= 1
  /\ Cardinality({i \in DOMAIN sd : Has(sd[i].steps, "destroy")}) <= 1

\* C12: a shutdown invoked without a server, without a client or with a
\* server that is not listening performs no operation on the missing
\* component, and still flushes the cache and exits: it is never cut short.
C12_MissingComponentsSkipped ==
  \A i \in DOMAIN sd :
    (~sd[i].server \/ ~sd[i].client \/ ~sd[i].serverListening) =>
       /\ (~sd[i].server \/ ~sd[i].serverListening) => ~Has(sd[i].steps, "close")
       /\ ~sd[i].client => ~Has(sd[i].steps, "destroy")
       /\ sd[i].pc \in {"awaitClose", "awaitDestroy", "exited"}
       /\ sd[i].pc = "exited" => Has(sd[i].steps, "flush") /\ exited /\ cache = flushAll(cache)

C13_Step ==
  (Answered /\ resp'.status = 500) =>
     /\ cache' = cache
     /\ sess' = sess
     /\ sd' = sd /\ closing' = closing /\ exited' = exited
C13_Later ==
  (resp.status = 500 /\ reqs' = reqs /\ resp' # resp /\ resp'.phone = resp.phone) =>
     /\ resp'.status = 200 /\ resp'.body.success
     /\ cacheKey(resp.phone) \in DOMAIN cache
     /\ resp'.body.result = cache[cacheKey(resp.phone)].val
     /\ "registered" \in DOMAIN resp'.body.result
C13_State ==
  \A k \in DOMAIN cache : "registered" \in DOMAIN cache[k].val

\* C13: a lookup answered with the upstream-error response leaves the cache
\* and the session state as they were and starts no shutdown; the cache never
\* holds a failure, so a later lookup for the same identifier answered without
\* an upstream call gets a result a successful lookup stored, and otherwise
\* calls the client afresh.
C13_FailureNotStored == [](C13_State) /\ [][C13_Step /\ C13_Later]_vars
C13_Witness ==
  /\ resp.status = 500 /\ resp.failedAt = "awaitIsRegistered"
  /\ sess = "Ready" /\ sd = <<>> /\ ~exited
  /\ \E q \in InFlight : q.phone = resp.phone /\ q.pc = "awaitIsRegistered"

C14_Step ==
  sess = "Disconnected" =>
    /\ sess' \notin {"Authenticating", "Ready"}
    /\ BagCardinality(reqs') <= BagCardinality(reqs)
    /\ (reqs' = reqs /\ resp' # resp /\ ~InvalidIdentifier(resp'.phone)) =>
          resp'.header = "HIT" \/ resp'.body # ErrorBody

\* C14: once the session is Disconnected it never becomes Authenticating or
\* Ready again, and a lookup
\* accepted from then on never calls the client: it is answered from the
\* cache or with a not-ready error that is not the generic 500 error.
C14_DisconnectedTerminal == [][C14_Step]_vars

\* main's positions after client.initialize() resolved
InitializeResolved == {"awaitListen", "running"}
C15_State ==
  /\ listening => mainPc = "running"
  /\ mainPc \in {"start", "awaitInit"} => ~listening /\ ~closing
C15_Step ==
  /\ (mainPc' = "awaitInit" /\ mainPc # "awaitInit") =>
        mainPc = "start" /\ serverDefined' /\ clientDefined'
  /\ mainPc # "start" => mainPc' # "start"
  /\ mainPc \in InitializeResolved \cup {"failed"} => mainPc' # "awaitInit"
  /\ (mainPc' \in InitializeResolved /\ mainPc \notin InitializeResolved) =>
        mainPc = "awaitInit" /\ mainPc' = "awaitListen"
  /\ (listening' /\ ~listening) => mainPc = "awaitListen"
  /\ mainPc = "failed" => mainPc' = "failed" /\ ~listening'
  /\ Accepted => mainPc = "running"

\* C15: main starts client.initialize() once, when both components are
\* constructed, and never again; the transport starts listening (and accepts
\* a request) only after client.initialize() has resolved, and never after
\* start-up has failed.
C15_ListenAfterInitialize == [](C15_State) /\ [][C15_Step]_vars
C15_Witness ==
  /\ listening /\ mainPc = "running"
  /\ sess = "Authenticating"
  /\ reqs # EmptyBag

\* q's successors in flight after a step that resolved one of its calls
Progressed(q) ==
  {r \in DOMAIN reqs' : r.phone = q.phone /\ r.abandoned /\ Calls(r.pc) = Calls(q.pc) + 1}
C16_Step ==
  reqs' # reqs =>
  /\ \A q \in InFlight :
       (q.abandoned /\ (q \notin DOMAIN reqs' \/ reqs'[q] < reqs[q])) =>
          \/ exited'
          \/ Progressed(q) # {} /\ BagCardinality(reqs') = BagCardinality(reqs)
          \/ /\ reqs' = Take(q)
             /\ resp'.phone = q.phone /\ resp'.calls = Calls(q.pc)
             /\ resp'.status \in {200, 500}
             /\ resp'.status = 200 =>
                  /\ cacheKey(q.phone) \in DOMAIN cache'
                  /\ cache'[cacheKey(q.phone)] = [val |-> resp'.body.result, ttlLeft |-> TTL]
                  /\ HandlerStart(q.phone, cache').sent
                  /\ HandlerStart(q.phone, cache').resp.header = "HIT"
                  /\ HandlerStart(q.phone, cache').resp.body.result = resp'.body.result
  /\ (BagCardinality(reqs') < BagCardinality(reqs) /\ ~exited') =>
        \E q \in InFlight :
           reqs' = Take(q) /\ resp'.phone = q.phone /\ resp'.calls = Calls(q.pc)

\* C16: a lookup whose caller disconnected after its upstream query was
\* issued stays in flight: it leaves only by being answered like any other
\* lookup (or when the process exits), and when it succeeds its result is
\* stored with a full TTL, so that a lookup for the same identifier started
\* then is a cache hit with that result.
C16_DisconnectDoesNotCancel == [][C16_Step]_vars
C16_Witness ==
  /\ \E q \in InFlight : q.abandoned /\ q.pc = "awaitPic"
  /\ sess = "Ready" /\ ~exited /\ ~closing

\* C17: lookups for one identifier that overlap get the outcome of the one
\* computation in progress, so the results stored for an identifier within
\* one TTL window (by lookups that started before any of them was stored)
\* are all the same result.
C17_OverlappingSameOutcome ==
  \A p \in Phones : Cardinality(RecentOf(cacheKey(p))) <= 1

\* upstream values the claim calls missing or empty
Absent == {"undefined", ""}
ProfileFields == {"registered", "name", "number", "profile_picture_url", "is_business"}
Normalized(r) ==
  IF r.registered
  THEN /\ DOMAIN r = ProfileFields
       /\ r.name \notin Absent /\ r.number \notin Absent
       /\ r.profile_picture_url \notin Absent
       /\ r.is_business \in {"true", "false"}
  ELSE DOMAIN r = {"registered"}
C18_State ==
  /\ \A k \in DOMAIN cache : Normalized(cache[k].val)
  /\ resp.status = 200 => Normalized(resp.body.result)
C18_Step ==
  (reqs' # reqs /\ ~exited' /\ resp'.status = 200) =>
  \A q \in InFlight :
    reqs' = Take(q) =>
       LET r == resp'.body.result IN
       /\ q.pc = "awaitIsRegistered" => r = [registered |-> FALSE]
       /\ q.pc = "awaitPic" =>
            /\ r.registered /\ DOMAIN r = ProfileFields
            /\ r.name = (IF q.contact.pushname \in Absent THEN "null" ELSE q.contact.pushname)
            /\ r.number = (IF q.contact.number \in Absent THEN "null" ELSE q.contact.number)
            /\ r.profile_picture_url \in (PicUrls \ Absent) \cup {"null"}
            /\ r.is_business =
                 (IF q.contact.isBusiness = "undefined" THEN "false" ELSE q.contact.isBusiness)
       /\ q.pc \in {"awaitIsRegistered", "awaitPic"}

\* C18: the result of a lookup is normalized: {registered: false} and
\* nothing else when the client reports not registered; otherwise
\* registered: true with name, number, profile_picture_url and is_business,
\* where a missing or empty name, number or picture URL is null and a missing
\* business flag is false. Responses and cache entries carry only such
\* results.
C18_ResultNormalized == [](C18_State) /\ [][C18_Step]_vars
C18_Witness ==
  /\ resp.status = 200 /\ resp.body.source = "live"
  /\ resp.body.result.registered
  /\ resp.body.result.name = "null" /\ resp.body.result.number = "null"
  /\ resp.body.result.profile_picture_url = "null"
  /\ resp.body.result.is_business = "false"

\* identifiers to compare keys of
KeyPhones == {<<"1">>, <<"2">>, <<"1", "2">>, <<"2", "1">>}
\* the step stored an entry under key k
Stored(k) ==
  /\ k \in DOMAIN cache'
  /\ \/ k \notin DOMAIN cache
     \/ cache'[k].val # cache[k].val
     \/ cache'[k].ttlLeft > cache[k].ttlLeft
ValidKeys == {<<"whatsapp_user_">> \o p : p \in {x \in Phones : ~InvalidIdentifier(x)}}
KeysDistinct == \A p1, p2 \in KeyPhones : cacheKey(p1) = cacheKey(p2) => p1 = p2
C19_State ==
  /\ \A k \in DOMAIN cache :
       /\ k \in ValidKeys
       /\ Normalized(cache[k].val)
  /\ KeysDistinct
C19_Step ==
  cache' # cache =>
  \A p \in Phones :
    Stored(<<"whatsapp_user_">> \o p) =>
      \E q \in InFlight :
        /\ q.phone = p /\ reqs' = Take(q) /\ ~exited'
        /\ resp'.phone = p /\ resp'.status = 200 /\ resp'.failedAt = "none"
        /\ resp'.body.success /\ resp'.body.source = "live"
        /\ cache'[<<"whatsapp_user_">> \o p] = [val |-> resp'.body.result, ttlLeft |-> TTL]
        /\ q.pc = (IF resp'.body.result.registered THEN "awaitPic" ELSE "awaitIsRegistered")
        /\ \A k \in DOMAIN cache' \ {<<"whatsapp_user_">> \o p} :
             k \in DOMAIN cache /\ cache'[k] = cache[k]

C20_State ==
  resp.status = 200 =>
    /\ resp.body.success
    /\ resp.header \in {"HIT", "MISS"} /\ resp.body.source \in {"cache", "live"}
    /\ resp.header = "HIT" <=> resp.body.source = "cache"
    /\ resp.header = "MISS" <=> resp.body.source = "live"
    /\ resp.body.source = "live" => resp.calls >= 1
    /\ resp.body.source = "cache" => resp.calls = 0
C20_Step ==
  (resp' # resp /\ resp'.status = 200 /\ resp'.body.source = "live") =>
     \E q \in InFlight :
        /\ reqs' = Take(q) /\ q.phone = resp'.phone
        /\ q.pc \in {"awaitIsRegistered", "awaitPic"}

\* C20: in every success response X-Cache-Status is HIT exactly when source
\* is "cache" and MISS exactly when source is "live", and a response with
\* source "live" answers a request that was itself awaiting the client: it
\* had issued at least one upstream call, a response from the cache none.
C20_HeaderMatchesSource == [](C20_State) /\ [][C20_Step]_vars
C20_Witness ==
  /\ resp.status = 200 /\ resp.header = "HIT" /\ resp.body.source = "cache"
  /\ resp.calls = 0 /\ resp.body.result.registered
====
